---- MODULE Spec2Model ----
(***************************************************************************)
(* PromptPerfect: the refinement client (src/services/geminiService.ts)    *)
(* and the App component's state, handlers and effects (src/App.tsx).      *)
(*                                                                         *)
(* A text is a sequence of symbols (each symbol a TLA+ string standing for *)
(* one or more characters that the code never splits).  An optional value  *)
(* (undefined / null in the source) is None == <<>> or Some(x) == <<x>>.   *)
(***************************************************************************)
EXTENDS Integers, Sequences, FiniteSets, TLC

None == <<>>
Some(x) == <<x>>

(***************************************************************************)
(* String primitives used by the source: trim, includes, Number.toString.  *)
(***************************************************************************)
WhiteSpace == {" ", "\n"}

RECURSIVE TrimStart(_)
TrimStart(s) ==
  IF s # <<>> /\ Head(s) \in WhiteSpace THEN TrimStart(Tail(s)) ELSE s

RECURSIVE TrimEnd(_)
TrimEnd(s) ==
  IF s # <<>> /\ s[Len(s)] \in WhiteSpace
    THEN TrimEnd(SubSeq(s, 1, Len(s) - 1))
    ELSE s

\* String.prototype.trim
Trim(s) == TrimEnd(TrimStart(s))

\* String.prototype.includes
Includes(s, needle) ==
  \E i \in 0..(Len(s) - Len(needle)) : SubSeq(s, i + 1, i + Len(needle)) = needle

Digits == <<"0", "1", "2", "3", "4", "5", "6", "7", "8", "9">>

\* Number.prototype.toString for a non-negative integer
RECURSIVE NumberToString(_)
NumberToString(n) ==
  IF n < 10
    THEN <<Digits[n + 1]>>
    ELSE NumberToString(n \div 10) \o <<Digits[(n % 10) + 1]>>

DigitValue(d) == CHOOSE k \in 0..9 : Digits[k + 1] = d

\* the number a sequence of decimal digits denotes
RECURSIVE ToNumber(_)
ToNumber(ds) ==
  IF ds = <<>> THEN 0
  ELSE 10 * ToNumber(SubSeq(ds, 1, Len(ds) - 1)) + DigitValue(ds[Len(ds)])

(***************************************************************************)
(* src/types.ts and the fixed texts of the source.                         *)
(***************************************************************************)
GENERAL == <<"General Improvement">>
CODING == <<"Software Development">>
RefinementGoal == {GENERAL, CODING}

FLASH == <<"gemini-3-flash-preview">>
PRO == <<"gemini-3-pro-preview">>
FallbackModel == <<"gemini-2.5-flash">>

MissingKeyMsg ==
  <<"No API key provided. Please set your Gemini API key in the settings.">>
NotFoundNeedle == <<"Requested entity", " was not found">>
NotFoundMsg ==
  NotFoundNeedle \o
  <<". This often indicates a model or API key mismatch. Please check your API key selection.">>
GenericMsg == <<"The AI encountered an issue refining your prompt.">>
FallbackText == <<"Failed to generate a refined prompt.">>
AnErrorOccurred == <<"An error occurred">>

(***************************************************************************)
(* refinePrompt (geminiService.ts).  The remote call's outcome is a        *)
(* response [ok, body]: ok with the optional generated text, or thrown     *)
(* with the error's optional message.                                      *)
(***************************************************************************)
\* the check without the empty string: if (customApiKey === undefined)
KeyMissingOnlyAbsent(customApiKey) == customApiKey = None

\* line 40: if (!customApiKey); the argument is optional
KeyMissing(customApiKey) == customApiKey = None \/ customApiKey[1] = <<>>

\* the result without the trim: response.text || "Failed ..."
RefineSuccessUntrimmed(text) ==
  IF text = None \/ text[1] = <<>> THEN FallbackText ELSE text[1]

\* line 58: response.text?.trim() || "Failed to generate a refined prompt."
RefineSuccess(text) ==
  LET trimmed == IF text = None THEN None ELSE Some(Trim(text[1]))
  IN IF trimmed = None \/ trimmed[1] = <<>> THEN FallbackText ELSE trimmed[1]

\* the classification by equality: error.message === "Requested entity was not found"
RefineFailureExactMatch(message) ==
  IF message # None /\ message[1] = NotFoundNeedle
    THEN NotFoundMsg
    ELSE IF message # None /\ message[1] # <<>> THEN message[1] ELSE GenericMsg

\* lines 59-66: the message of the Error the catch block throws
RefineFailure(message) ==
  IF message # None /\ Includes(message[1], NotFoundNeedle)
    THEN NotFoundMsg
    ELSE IF message # None /\ message[1] # <<>> THEN message[1] ELSE GenericMsg

\* the promise that resolves with the message instead of rejecting
RefineSettleResolvesAlways(response) ==
  IF response.ok
    THEN [ok |-> TRUE, value |-> RefineSuccess(response.body)]
    ELSE [ok |-> TRUE, value |-> RefineFailure(response.body)]

\* lines 46-66: how the promise settles once the remote call has returned
RefineSettle(response) ==
  IF response.ok
    THEN [ok |-> TRUE, value |-> RefineSuccess(response.body)]
    ELSE [ok |-> FALSE, value |-> RefineFailure(response.body)]

(***************************************************************************)
(* JSON text as localStorage holds it: a sequence of tokens, each token a  *)
(* sequence of symbols.  Punctuation is a one-symbol token; a string       *)
(* literal is "str" followed by its contents, a number literal "num"       *)
(* followed by its digits.  Property names are one symbol long.            *)
(***************************************************************************)
LBRACK == <<"[">>
RBRACK == <<"]">>
LBRACE == <<"{">>
RBRACE == <<"}">>
COMMA == <<",">>
COLON == <<":">>
NullTok == <<"null">>
StrTok(text) == <<"str">> \o text
NumTok(n) == <<"num">> \o NumberToString(n)

\* JSON.stringify of one RefinementHistory object (src/types.ts: the property
\* order is the order handleRefine creates them in)
StringifyEntry(e) ==
  << LBRACE,
     StrTok(<<"id">>), COLON, StrTok(e.id), COMMA,
     StrTok(<<"original">>), COLON, StrTok(e.original), COMMA,
     StrTok(<<"refined">>), COLON, StrTok(e.refined), COMMA,
     StrTok(<<"goal">>), COLON, StrTok(e.goal), COMMA,
     StrTok(<<"timestamp">>), COLON, NumTok(e.timestamp),
     RBRACE >>

RECURSIVE StringifyItems(_)
StringifyItems(list) ==
  IF list = <<>> THEN <<>>
  ELSE IF Len(list) = 1 THEN StringifyEntry(list[1])
  ELSE StringifyEntry(list[1]) \o <<COMMA>> \o StringifyItems(Tail(list))

\* JSON.stringify(history), App.tsx line 63
Stringify(list) == <<LBRACK>> \o StringifyItems(list) \o <<RBRACK>>

ParseError == [ok |-> FALSE, next |-> 0, kind |-> "error", val |-> <<>>]
Parsed(next, kind, val) == [ok |-> TRUE, next |-> next, kind |-> kind, val |-> val]
TokAt(t, i) == IF i \in 1..Len(t) THEN t[i] ELSE <<"eof">>
KeyName(tok) == IF Len(tok) = 2 THEN tok[2] ELSE ""

RECURSIVE ParseValue(_, _)
RECURSIVE ParseElements(_, _, _)
RECURSIVE ParseMembers(_, _, _)

\* one JSON value starting at token i
ParseValue(t, i) ==
  LET tok == TokAt(t, i)
  IN CASE tok[1] = "str" -> Parsed(i + 1, "str", Tail(tok))
       [] tok[1] = "num" /\ Len(tok) > 1 -> Parsed(i + 1, "num", ToNumber(Tail(tok)))
       [] tok = NullTok -> Parsed(i + 1, "null", <<>>)
       [] tok = LBRACK ->
            IF TokAt(t, i + 1) = RBRACK
              THEN Parsed(i + 2, "arr", <<>>)
              ELSE ParseElements(t, i + 1, <<>>)
       [] tok = LBRACE ->
            IF TokAt(t, i + 1) = RBRACE
              THEN Parsed(i + 2, "obj", <<>>)
              ELSE ParseMembers(t, i + 1, <<>>)
       [] OTHER -> ParseError

\* the elements of an array, after "[" or ","
ParseElements(t, i, acc) ==
  LET r == ParseValue(t, i)
  IN IF ~r.ok THEN ParseError
     ELSE IF TokAt(t, r.next) = COMMA
       THEN ParseElements(t, r.next + 1, Append(acc, r.val))
     ELSE IF TokAt(t, r.next) = RBRACK
       THEN Parsed(r.next + 1, "arr", Append(acc, r.val))
     ELSE ParseError

\* the members of an object, after "{" or ","; a repeated name keeps the last
ParseMembers(t, i, acc) ==
  LET key == TokAt(t, i)
      r == ParseValue(t, i + 2)
  IN IF key[1] # "str" \/ TokAt(t, i + 1) # COLON \/ ~r.ok THEN ParseError
     ELSE LET obj == (KeyName(key) :> r.val) @@ acc
          IN IF TokAt(t, r.next) = COMMA
               THEN ParseMembers(t, r.next + 1, obj)
             ELSE IF TokAt(t, r.next) = RBRACE
               THEN Parsed(r.next + 1, "obj", obj)
             ELSE ParseError

\* JSON.parse: one value and nothing after it, or a SyntaxError (ok = FALSE)
JsonParse(t) ==
  LET r == ParseValue(t, 1)
  IN IF r.ok /\ r.next = Len(t) + 1 THEN r ELSE ParseError

(***************************************************************************)
(* The App component (App.tsx).                                            *)
(***************************************************************************)
VARIABLES
  input, refined, goal, selectedModel, isLoading, history, error,
  customApiKey, hasCustomKey, isKeyModalOpen,   \* useState, lines 28-48
  lsKey,            \* localStorage 'custom_gemini_api_key': optional text
  lsHistory,        \* localStorage 'prompt_history': optional JSON text
  phase,            \* "mounted": first render done, effects not yet run;
                    \* "running"; "crashed": a render threw, the tree is gone
  persistPending,   \* the persist effect (lines 62-64) is scheduled, not yet run
  calls,            \* refinePrompt calls awaiting the remote service
  remoteCalls,      \* number of generateContent requests issued
  now,              \* the last value Date.now() returned
  disk,             \* history: the list the stored text was written from, if any
  boot,             \* history: disk as it was when the page last started
  lastMut,          \* history: what last changed `history` since the page started
  lastSaved,        \* history: the argument of the last handleSaveKey, if any
  settled,          \* how the last refinePrompt call of a direct caller ended
  log,              \* history: the entries put into `history` since it was last
                    \* empty, oldest first
  completed         \* history: the calls whose results log holds, in the
                    \* same order

appState ==
  <<input, refined, goal, selectedModel, isLoading, history, error,
    customApiKey, hasCustomKey, isKeyModalOpen>>
vars ==
  <<input, refined, goal, selectedModel, isLoading, history, error,
    customApiKey, hasCustomKey, isKeyModalOpen, lsKey, lsHistory, phase,
    persistPending, calls, remoteCalls, now, disk, boot, lastMut, lastSaved,
    settled, log, completed>>

\* line 94: the history keeps at most this many entries
Capacity == 10
\* bounds of the model
MaxCalls == 2
MaxKeyCalls == 2
MaxServiceCalls == 2
MaxReentrantCalls == 2
MaxLongCalls == 12
MaxRefineCalls == 2
StartNow == 11

Min(a, b) == IF a < b THEN a ELSE b
Reverse(s) == [k \in 1..Len(s) |-> s[Len(s) + 1 - k]]

\* lines 38-40: localStorage.getItem('custom_gemini_api_key') || ''
LoadKey(stored) == IF stored = None \/ stored[1] = <<>> THEN <<>> ELSE stored[1]
\* lines 42-44: !!localStorage.getItem('custom_gemini_api_key')
LoadHasKey(stored) == stored # None /\ stored[1] # <<>>

\* an entry as a previous session recorded it at time k
SeedEntry(k) ==
  [id |-> NumberToString(k), original |-> <<"old">>, refined |-> <<"was">>,
   goal |-> CODING, timestamp |-> k]
\* the list a previous session left after n records, newest first
SeedList(n) == [i \in 1..n |-> SeedEntry(n + 1 - i)]

\* the text "{not json"
NotJsonText == <<LBRACE, <<"word", "not">>, <<"word", "json">> >>
\* the texts "{}" and "null": valid JSON, no list
EmptyObjectText == <<LBRACE, RBRACE>>
NullText == <<NullTok>>

\* what 'prompt_history' may hold when the page starts: nothing, a list an
\* earlier session persisted, or text the program did not write
PersistedStores ==
  { [text |-> Some(Stringify(SeedList(n))), list |-> Some(SeedList(n))] :
      n \in {0, 1, Capacity} }
ForeignStores ==
  { [text |-> t, list |-> None] :
      t \in {None, Some(<<>>), Some(NotJsonText), Some(EmptyObjectText), Some(NullText)} }

\* the state right after the first render (lines 28-48)
InitWith(key, store) ==
  /\ input = <<>> /\ refined = <<>> /\ goal = GENERAL /\ selectedModel = FLASH
  /\ isLoading = FALSE /\ history = <<>> /\ error = None
  /\ lsKey = key
  /\ customApiKey = LoadKey(key)
  /\ hasCustomKey = LoadHasKey(key)
  /\ isKeyModalOpen = ~LoadHasKey(key)
  /\ lsHistory = store.text
  /\ disk = store.list /\ boot = store.list
  /\ phase = "mounted" /\ persistPending = FALSE
  /\ calls = <<>> /\ remoteCalls = 0 /\ now = StartNow
  /\ lastMut = "none" /\ lastSaved = None /\ settled = None
  /\ log = <<>> /\ completed = <<>>

\* the persist effect with an empty dependency list: it never runs again
RenderEffectOnce(historyChanged) ==
  /\ lsHistory' = IF persistPending THEN Some(Stringify(history)) ELSE lsHistory
  /\ disk' = IF persistPending THEN Some(history) ELSE disk
  /\ persistPending' = FALSE

\* A render caused by a state update.  React runs the passive effects still
\* pending from the previous commit before it renders again, so the persist
\* effect (lines 62-64) writes the committed history first; the effect is
\* scheduled anew when this render changes `history` (its dependency).
Render(historyChanged) ==
  /\ lsHistory' = IF persistPending THEN Some(Stringify(history)) ELSE lsHistory
  /\ disk' = IF persistPending THEN Some(history) ELSE disk
  /\ persistPending' = historyChanged

NoRender == UNCHANGED <<lsHistory, disk, persistPending>>

\* lines 336-392: what the render does with `history`: .length and .map
RenderThrows(kind, val) == kind # "arr" /\ ~(kind = "str" /\ val = <<>>)

\* the two effects declared in the other order: persist runs before load
MountEffectsPersistFirst ==
  LET written == Stringify(history)
      r == JsonParse(written)
  IN /\ phase = "mounted"
     /\ lsHistory' = Some(written)
     /\ disk' = Some(history)
     /\ history' = r.val
     /\ phase' = "running"
     /\ persistPending' = TRUE
     /\ lastMut' = "load"
     /\ log' = Reverse(r.val)
     /\ UNCHANGED <<input, refined, goal, selectedModel, isLoading, error,
                    customApiKey, hasCustomKey, isKeyModalOpen, lsKey, calls,
                    remoteCalls, now, boot, lastSaved, settled, completed>>

\* The two mount effects, in order: load (lines 51-60), then persist (62-64)
\* with the first render's history, then the re-render setHistory asked for.
MountEffects ==
  LET attempted == lsHistory # None /\ lsHistory[1] # <<>>
      r == IF attempted THEN JsonParse(lsHistory[1]) ELSE ParseError
      loaded == attempted /\ r.ok
  IN /\ phase = "mounted"
     /\ lsHistory' = Some(Stringify(history))
     /\ disk' = Some(history)
     /\ IF loaded /\ ~RenderThrows(r.kind, r.val)
          THEN /\ history' = r.val
               /\ phase' = "running"
               /\ persistPending' = TRUE
               /\ lastMut' = "load"
               /\ log' = Reverse(r.val)
          ELSE /\ phase' = (IF loaded THEN "crashed" ELSE "running")
               /\ persistPending' = FALSE
               /\ UNCHANGED <<history, lastMut, log>>
     /\ UNCHANGED <<input, refined, goal, selectedModel, isLoading, error,
                    customApiKey, hasCustomKey, isKeyModalOpen, lsKey, calls,
                    remoteCalls, now, boot, lastSaved, settled, completed>>

\* lines 62-64: the scheduled persist effect runs
FlushEffects ==
  /\ phase = "running" /\ persistPending
  /\ lsHistory' = Some(Stringify(history))
  /\ disk' = Some(history)
  /\ persistPending' = FALSE
  /\ UNCHANGED <<appState, lsKey, phase, calls, remoteCalls, now, boot, lastMut,
                 lastSaved, settled, log, completed>>

\* line 253: the textarea's onChange
SetInput(v) ==
  /\ phase = "running" /\ v # input
  /\ input' = v
  /\ Render(FALSE)
  /\ UNCHANGED <<refined, goal, selectedModel, isLoading, history, error,
                 customApiKey, hasCustomKey, isKeyModalOpen, lsKey, phase, calls,
                 remoteCalls, now, boot, lastMut, lastSaved, settled, log, completed>>

\* line 292: a goal button
SetGoal(g) ==
  /\ phase = "running" /\ g # goal
  /\ goal' = g
  /\ Render(FALSE)
  /\ UNCHANGED <<input, refined, selectedModel, isLoading, history, error,
                 customApiKey, hasCustomKey, isKeyModalOpen, lsKey, phase, calls,
                 remoteCalls, now, boot, lastMut, lastSaved, settled, log, completed>>

\* line 267: a model button
SetSelectedModel(m) ==
  /\ phase = "running" /\ m # selectedModel
  /\ selectedModel' = m
  /\ Render(FALSE)
  /\ UNCHANGED <<input, refined, goal, isLoading, history, error,
                 customApiKey, hasCustomKey, isKeyModalOpen, lsKey, phase, calls,
                 remoteCalls, now, boot, lastMut, lastSaved, settled, log, completed>>

\* lines 66-68
HandleOpenKeySelector ==
  /\ phase = "running" /\ ~isKeyModalOpen
  /\ isKeyModalOpen' = TRUE
  /\ Render(FALSE)
  /\ UNCHANGED <<input, refined, goal, selectedModel, isLoading, history, error,
                 customApiKey, hasCustomKey, lsKey, phase, calls,
                 remoteCalls, now, boot, lastMut, lastSaved, settled, log, completed>>

\* line 133: the modal's close button
CloseKeyModal ==
  /\ phase = "running" /\ isKeyModalOpen
  /\ isKeyModalOpen' = FALSE
  /\ Render(FALSE)
  /\ UNCHANGED <<input, refined, goal, selectedModel, isLoading, history, error,
                 customApiKey, hasCustomKey, lsKey, phase, calls,
                 remoteCalls, now, boot, lastMut, lastSaved, settled, log, completed>>

\* the save without localStorage.setItem
HandleSaveKeyUnstored(key) ==
  /\ customApiKey' = key
  /\ hasCustomKey' = (key # <<>>)
  /\ isKeyModalOpen' = FALSE
  /\ lastSaved' = Some(key)
  /\ Render(FALSE)
  /\ UNCHANGED <<input, refined, goal, selectedModel, isLoading, history, error,
                 lsKey, phase, calls, remoteCalls, now, boot, lastMut,
                 settled, log, completed>>

\* lines 70-75
HandleSaveKey(key) ==
  /\ lsKey' = Some(key)
  /\ customApiKey' = key
  /\ hasCustomKey' = (key # <<>>)
  /\ isKeyModalOpen' = FALSE
  /\ lastSaved' = Some(key)
  /\ IF key # customApiKey \/ hasCustomKey # (key # <<>>) \/ isKeyModalOpen
       THEN Render(FALSE)
       ELSE NoRender
  /\ UNCHANGED <<input, refined, goal, selectedModel, isLoading, history, error,
                 phase, calls, remoteCalls, now, boot, lastMut, settled, log, completed>>

\* lines 128, 149-153, 173-175: the form and the Clear Key button exist only
\* while the modal is open
SubmitKey(key) == phase = "running" /\ isKeyModalOpen /\ HandleSaveKey(key)

\* line 96: err.message || "An error occurred"
HandleRefineError(message) == IF message = <<>> THEN AnErrorOccurred ELSE message

\* lines 77-84 (up to the await) with refinePrompt lines 33-55: a blank input
\* returns at once; a missing key makes refinePrompt throw before any request,
\* and the catch and finally blocks run before anything else can happen
HandleRefine ==
  IF Trim(input) = <<>>
    THEN UNCHANGED vars
    ELSE
      /\ IF KeyMissing(Some(customApiKey))
           THEN /\ error' = Some(HandleRefineError(MissingKeyMsg))
                /\ isLoading' = FALSE
                /\ UNCHANGED <<calls, remoteCalls>>
           ELSE /\ error' = None
                /\ isLoading' = TRUE
                /\ calls' = Append(calls,
                     [caller |-> "App", no |-> remoteCalls + 1, prompt |-> input, goal |-> goal,
                      model |-> IF hasCustomKey THEN selectedModel ELSE FallbackModel,
                      cred |-> Some(customApiKey)])
                /\ remoteCalls' = remoteCalls + 1
      /\ Render(FALSE)
      /\ UNCHANGED <<input, refined, goal, selectedModel, history, customApiKey,
                     hasCustomKey, isKeyModalOpen, lsKey, phase, now, boot,
                     lastMut, lastSaved, settled, log, completed>>

\* the button with disabled={!input.trim()}: it stays enabled while loading
ClickOptimizeWhileLoading ==
  /\ phase = "running" /\ Trim(input) # <<>>
  /\ HandleRefine

\* lines 305-308: the Optimize Prompt button and its disabled attribute
ClickOptimize ==
  /\ phase = "running" /\ ~isLoading /\ Trim(input) # <<>>
  /\ HandleRefine

\* handleRefine invoked by a caller that does not go through the button
CallHandleRefine == phase = "running" /\ HandleRefine

\* the record that forgets the list: [newEntry]
RecordAlone(prev, newEntry) == <<newEntry>>

\* the record without the cut: [newEntry, ...prev]
RecordUncut(prev, newEntry) == <<newEntry>> \o prev

\* line 94: [newEntry, ...prev].slice(0, 10)
Record(prev, newEntry) ==
  SubSeq(<<newEntry>> \o prev, 1, Min(Capacity, Len(prev) + 1))

RemoveAt(s, i) == SubSeq(s, 1, i - 1) \o SubSeq(s, i + 1, Len(s))

\* The remote call of calls[i] returns `response`: refinePrompt lines 56-66,
\* then handleRefine lines 85-103.  d1 is the time since Date.now() was last
\* read, d2 the time between the two reads of lines 88 and 92.
Complete(i, response, d1, d2) ==
  LET c == calls[i]
      s == RefineSettle(response)
      t1 == now + d1
      t2 == t1 + d2
      newEntry == [id |-> NumberToString(t1), original |-> c.prompt,
                   refined |-> s.value, goal |-> c.goal, timestamp |-> t2]
  IN /\ phase = "running" /\ i \in 1..Len(calls) /\ c.caller = "App"
     /\ calls' = RemoveAt(calls, i)
     /\ isLoading' = FALSE
     /\ IF s.ok
          THEN /\ refined' = s.value
               /\ history' = Record(history, newEntry)
               /\ now' = t2
               /\ lastMut' = "record"
               /\ log' = Append(log, newEntry)
               /\ completed' = Append(completed,
                    [no |-> c.no, prompt |-> c.prompt, goal |-> c.goal])
               /\ Render(TRUE)
               /\ UNCHANGED error
          ELSE /\ error' = Some(HandleRefineError(s.value))
               /\ Render(FALSE)
               /\ UNCHANGED <<refined, history, now, lastMut, log, completed>>
     /\ UNCHANGED <<input, goal, selectedModel, customApiKey, hasCustomKey,
                    isKeyModalOpen, lsKey, phase, remoteCalls, boot, lastSaved,
                    settled>>

\* refinePrompt lines 33-55, called by a caller other than App with any
\* arguments (customApiKey is optional): it throws at once without a key,
\* and otherwise sends one request
RefinePrompt(rawPrompt, g, modelName, key) ==
  /\ IF KeyMissing(key)
       THEN /\ settled' = Some([prompt |-> rawPrompt, goal |-> g, model |-> modelName,
                                cred |-> key, requests |-> 0, response |-> None,
                                ok |-> FALSE, value |-> MissingKeyMsg])
            /\ UNCHANGED <<calls, remoteCalls>>
       ELSE /\ calls' = Append(calls,
                 [caller |-> "direct", no |-> remoteCalls + 1, prompt |-> rawPrompt, goal |-> g,
                  model |-> modelName, cred |-> key])
            /\ remoteCalls' = remoteCalls + 1
            /\ UNCHANGED settled
  /\ UNCHANGED <<appState, lsKey, lsHistory, phase, persistPending, now, disk,
                 boot, lastMut, lastSaved, log, completed>>

\* refinePrompt lines 56-66 for a direct caller: the promise settles
SettleDirect(i, response) ==
  LET c == calls[i]
      s == RefineSettle(response)
  IN /\ i \in 1..Len(calls) /\ c.caller = "direct"
     /\ calls' = RemoveAt(calls, i)
     /\ settled' = Some([prompt |-> c.prompt, goal |-> c.goal, model |-> c.model,
                         cred |-> c.cred, requests |-> 1,
                         response |-> Some(response), ok |-> s.ok, value |-> s.value])
     /\ UNCHANGED <<appState, lsKey, lsHistory, phase, persistPending, remoteCalls,
                    now, disk, boot, lastMut, lastSaved, log, completed>>

\* the clear that empties the array in place (history.length = 0): no state
\* update, so no render and no persist
ClearHistoryInPlace(answer) ==
  IF answer
    THEN /\ history' = <<>>
         /\ lastMut' = "clear"
         /\ log' = <<>> /\ completed' = <<>>
         /\ NoRender
         /\ UNCHANGED <<input, refined, goal, selectedModel, isLoading, error,
                        customApiKey, hasCustomKey, isKeyModalOpen, lsKey, phase,
                        calls, remoteCalls, now, boot, lastSaved, settled>>
    ELSE UNCHANGED vars

\* lines 112-116; answer is what confirm() returns
ClearHistory(answer) ==
  IF answer
    THEN /\ history' = <<>>
         /\ lastMut' = "clear"
         /\ log' = <<>> /\ completed' = <<>>
         /\ Render(TRUE)
         /\ UNCHANGED <<input, refined, goal, selectedModel, isLoading, error,
                        customApiKey, hasCustomKey, isKeyModalOpen, lsKey, phase,
                        calls, remoteCalls, now, boot, lastSaved, settled>>
    ELSE UNCHANGED vars

\* lines 344-352: the Clear button exists only while the history is not empty
ClickClear(answer) == phase = "running" /\ Len(history) > 0 /\ ClearHistory(answer)

\* lines 118-123, from the button of history[i] (lines 362-365)
RestoreFromHistory(i) ==
  LET item == history[i]
  IN /\ phase = "running" /\ i \in 1..Len(history)
     /\ input' = item.original
     /\ refined' = item.refined
     /\ goal' = item.goal
     /\ IF <<input, refined, goal>> # <<item.original, item.refined, item.goal>>
          THEN Render(FALSE)
          ELSE NoRender
     /\ UNCHANGED <<selectedModel, isLoading, history, error, customApiKey,
                    hasCustomKey, isKeyModalOpen, lsKey, phase, calls,
                    remoteCalls, now, boot, lastMut, lastSaved, settled, log, completed>>

\* The page is reloaded (or closed and opened again): the component state is
\* built anew from localStorage (lines 28-48); effects that had not run and
\* calls that had not returned are gone.
Reload ==
  /\ input' = <<>> /\ refined' = <<>> /\ goal' = GENERAL /\ selectedModel' = FLASH
  /\ isLoading' = FALSE /\ history' = <<>> /\ error' = None
  /\ customApiKey' = LoadKey(lsKey)
  /\ hasCustomKey' = LoadHasKey(lsKey)
  /\ isKeyModalOpen' = ~LoadHasKey(lsKey)
  /\ phase' = "mounted" /\ persistPending' = FALSE
  /\ calls' = <<>>
  /\ boot' = disk /\ lastMut' = "none"
  /\ log' = <<>> /\ completed' = <<>>
  /\ UNCHANGED <<lsKey, lsHistory, disk, remoteCalls, now, lastSaved, settled>>

(***************************************************************************)
(* The environment: what the user types and saves, what the remote service *)
(* answers.                                                                *)
(***************************************************************************)
Ok(text) == [ok |-> TRUE, body |-> text]
Thrown(message) == [ok |-> FALSE, body |-> message]

OkTexts ==
  { None, Some(<<>>), Some(<<" ", "\n">>), Some(<<"r">>),
    Some(<<"\n", " ", "r", " ", "s", " ", "\n">>) }
ThrownMessages ==
  { None, Some(<<>>), Some(<<"boom">>), Some(NotFoundNeedle),
    Some(<<"x">> \o NotFoundNeedle \o <<"y">>),
    Some(<<"Requested entity", "x", " was not found">>) }
Responses == {Ok(t) : t \in OkTexts} \cup {Thrown(m) : m \in ThrownMessages}
PlainResponses == {Ok(Some(<<"r">>)), Thrown(Some(<<"boom">>))}

Keys == {<<>>, <<"k1">>, <<"k2">>}

\* The page from its start: loading, persisting, clearing, reloading.
Init ==
  \E store \in PersistedStores \cup ForeignStores : InitWith(Some(<<"k1">>), store)

Next ==
  \/ MountEffects
  \/ FlushEffects
  \/ SetInput(<<"p">>)
  \/ remoteCalls < MaxCalls /\ ClickOptimize
  \/ \E r \in PlainResponses : Complete(1, r, 1, 0)
  \/ \E answer \in BOOLEAN : ClickClear(answer)
  \/ \E i \in 1..Capacity : RestoreFromHistory(i)
  \/ Reload

Spec == Init /\ [][Next]_vars

\* The credential: the key modal, saving and clearing the key, reloading.
InitKey ==
  \E key \in {None, Some(<<"k1">>)} : InitWith(key, [text |-> None, list |-> None])

NextKey ==
  \/ MountEffects
  \/ FlushEffects
  \/ SetInput(<<"p">>)
  \/ HandleOpenKeySelector
  \/ CloseKeyModal
  \/ \E k \in Keys : SubmitKey(k)
  \/ \E m \in {FLASH, PRO} : SetSelectedModel(m)
  \/ remoteCalls < MaxKeyCalls /\ ClickOptimize
  \/ \E r \in PlainResponses : Complete(1, r, 1, 0)
  \/ Reload

SpecKey == InitKey /\ [][NextKey]_vars

\* The refinement client on its own: refinePrompt called with any arguments.
Credentials == {None, Some(<<>>), Some(<<" ">>), Some(<<"k1">>)}

InitService == InitWith(None, [text |-> None, list |-> None])

NextService ==
  \/ \E rawPrompt \in {<<>>, <<"p">>}, g \in RefinementGoal, modelName \in {FLASH, PRO},
        key \in Credentials :
       remoteCalls < MaxServiceCalls /\ RefinePrompt(rawPrompt, g, modelName, key)
  \/ \E i \in 1..MaxServiceCalls, r \in Responses : SettleDirect(i, r)

SpecService == InitService /\ [][NextService]_vars

\* One user who stays on the page and refines the same prompt again and again.
InitLong ==
  \E store \in {[text |-> None, list |-> None],
                [text |-> Some(Stringify(<<>>)), list |-> Some(<<>>)]} :
    InitWith(Some(<<"k1">>), store)

NextLong ==
  \/ MountEffects
  \/ FlushEffects
  \/ SetInput(<<"p">>)
  \/ remoteCalls < MaxLongCalls /\ ClickOptimize
  \/ \E r \in PlainResponses : Complete(1, r, 1, 0)
  \/ \E answer \in BOOLEAN : ClickClear(answer)

SpecLong == InitLong /\ [][NextLong]_vars

\* handleRefine called again while earlier calls are still awaited.
InitReentrant == InitWith(Some(<<"k1">>), [text |-> None, list |-> None])

NextReentrant ==
  \/ MountEffects
  \/ FlushEffects
  \/ \E v \in {<<" ">>, <<"p">>, <<"q">>} : SetInput(v)
  \/ \E g \in RefinementGoal : SetGoal(g)
  \/ remoteCalls < MaxReentrantCalls /\ CallHandleRefine
  \/ \E i \in 1..MaxReentrantCalls, r \in PlainResponses, d1 \in {0, 1} : Complete(i, r, d1, 0)

SpecReentrant == InitReentrant /\ [][NextReentrant]_vars

\* handleRefine with an input the button would not accept (lines 77-78)
BlankRefine == phase = "running" /\ Trim(input) = <<>> /\ HandleRefine

\* what the remote service may answer to a refinement of the page
RefineResponses ==
  PlainResponses \cup {Ok(None), Thrown(None)}

\* Refinements one after the other through the Optimize button, with or
\* without a key, every kind of answer, and the clock ticking or not between
\* the reads of Date.now().
InitRefine ==
  \E key \in {None, Some(<<"k1">>)},
     store \in {[text |-> None, list |-> None],
                [text |-> Some(Stringify(SeedList(1))), list |-> Some(SeedList(1))]} :
    InitWith(key, store)

NextRefine ==
  \/ MountEffects
  \/ FlushEffects
  \/ \E v \in {<<" ">>, <<"p">>} : SetInput(v)
  \/ \E g \in RefinementGoal : SetGoal(g)
  \/ remoteCalls < MaxRefineCalls /\ ClickOptimize
  \/ BlankRefine
  \/ \E r \in RefineResponses, d1 \in {0, 1}, d2 \in {0, 1} : Complete(1, r, d1, d2)
  \/ \E answer \in BOOLEAN : ClickClear(answer)

SpecRefine == InitRefine /\ [][NextRefine]_vars

(***************************************************************************)
(* The claims.                                                             *)
(***************************************************************************)
AllWhiteSpace(s) == \A k \in 1..Len(s) : s[k] \in WhiteSpace

\* C1: refinePrompt called with an empty or absent credential fails at once
\* with the missing-credential error and sends no request, whatever the
\* prompt, goal and model are.
C1_NoKeyOutcome ==
  settled # None /\ (settled[1].cred = None \/ settled[1].cred = Some(<<>>)) =>
    /\ ~settled[1].ok
    /\ settled[1].value = MissingKeyMsg
    /\ settled[1].response = None
    /\ settled[1].requests = 0
C1_NoKeyNoRequest ==
  /\ \A i \in 1..Len(calls) : calls[i].cred # None /\ calls[i].cred # Some(<<>>)
  /\ remoteCalls = 0 => (settled = None \/ settled[1].requests = 0)
C1_NoKeyStep ==
  (settled' # settled /\ (settled'[1].cred = None \/ settled'[1].cred = Some(<<>>)))
    => remoteCalls' = remoteCalls /\ calls' = calls
C1_MissingCredential ==
  [](C1_NoKeyOutcome /\ C1_NoKeyNoRequest) /\ [][C1_NoKeyStep]_vars
C1_Witness ==
  /\ settled # None /\ settled[1].cred = None /\ settled[1].prompt = <<"p">>
  /\ settled[1].model = PRO /\ settled[1].value = MissingKeyMsg
  /\ remoteCalls = 0

\* C2: when the remote call fails, refinePrompt ends with a classified
\* error: the fixed mismatch message exactly when the failure's message
\* contains "Requested entity was not found", otherwise the original message,
\* or the generic message when there is none; one request, never a success.
NeedleMessages == {Some(NotFoundNeedle), Some(<<"x">> \o NotFoundNeedle \o <<"y">>)}
C2_FailureClassified ==
  settled # None /\ settled[1].response # None /\ ~settled[1].response[1].ok =>
    LET m == settled[1].response[1].body
    IN /\ ~settled[1].ok
       /\ settled[1].requests = 1
       /\ m \in NeedleMessages <=> settled[1].value = NotFoundMsg
       /\ m \notin NeedleMessages =>
            settled[1].value = IF m = None \/ m[1] = <<>> THEN GenericMsg ELSE m[1]
C2_Witness ==
  /\ settled # None
  /\ settled[1].response = Some(Thrown(Some(<<"x">> \o NotFoundNeedle \o <<"y">>)))
  /\ settled[1].value = NotFoundMsg

\* C3: when the remote call returns, refinePrompt succeeds with the text
\* without its leading and trailing whitespace, or with exactly "Failed to
\* generate a refined prompt." when the text is absent, empty or nothing but
\* whitespace.
C3_SuccessText ==
  settled # None /\ settled[1].response # None /\ settled[1].response[1].ok =>
    LET text == settled[1].response[1].body
        v == settled[1].value
    IN /\ settled[1].ok
       /\ IF text = None \/ AllWhiteSpace(text[1])
            THEN v = FallbackText
            ELSE /\ v # <<>> /\ v[1] \notin WhiteSpace /\ v[Len(v)] \notin WhiteSpace
                 /\ \E a \in 0..Len(text[1]) :
                      /\ a + Len(v) <= Len(text[1])
                      /\ SubSeq(text[1], a + 1, a + Len(v)) = v
                      /\ AllWhiteSpace(SubSeq(text[1], 1, a))
                      /\ AllWhiteSpace(SubSeq(text[1], a + Len(v) + 1, Len(text[1])))
C3_Witness ==
  /\ settled # None
  /\ settled[1].response = Some(Ok(Some(<<" ", "\n">>)))
  /\ settled[1].ok /\ settled[1].value = FallbackText
\* C3 as it is worded: the fallback only for an absent or empty text, the
\* trimmed text for every other.
C3_FallbackOnlyWhenEmpty ==
  settled # None /\ settled[1].response # None /\ settled[1].response[1].ok =>
    LET text == settled[1].response[1].body
    IN /\ settled[1].ok
       /\ settled[1].value =
            IF text = None \/ text[1] = <<>> THEN FallbackText ELSE Trim(text[1])

\* C4: recording keeps the history a newest-first list of at most 10
\* entries: after n records since it was empty it holds the last min(n, 10)
\* of them, newest at the head; after 11 records its length is 10, its head
\* the 11th entry, its tail the 2nd, the 1st evicted.
C4_BoundedNewestFirst ==
  /\ Len(history) <= Capacity
  /\ Len(history) = Min(Len(log), Capacity)
  /\ \A k \in 1..Len(history) : history[k] = log[Len(log) + 1 - k]
  /\ Len(log) = Capacity + 1 =>
       /\ Len(history) = Capacity
       /\ history[1] = log[Capacity + 1]
       /\ history[Capacity] = log[2]
       /\ \A k \in 1..Len(history) : history[k] # log[1]
C4_Witness ==
  /\ Len(log) = Capacity + 1 /\ boot = None /\ lastMut = "record"
  /\ Len(history) = Capacity

\* what a fresh read of 'prompt_history' gives: JSON.parse of the stored text
StoredList == IF lsHistory = None THEN ParseError ELSE JsonParse(lsHistory[1])
StoredIs(list) == StoredList.ok /\ StoredList.kind = "arr" /\ StoredList.val = list

\* C5: loading at start from persisted text that is absent, or present but
\* no valid list of entries, yields the empty history and raises no error.
C5_LoadTolerant ==
  phase # "mounted" /\ boot = None /\ lastMut = "none" =>
    phase = "running" /\ history = <<>>

\* C6: if storage holds a persisted list L of 0 to 10 entries when the page
\* starts, then once the load and persist effects have run the in-memory
\* history is L and the persisted history is L.
C6_RoundTrip ==
  phase = "running" /\ ~persistPending /\ boot # None /\ lastMut \in {"none", "load"} =>
    history = boot[1] /\ StoredIs(boot[1])
C6_Witness ==
  /\ boot # None /\ Len(boot[1]) = Capacity /\ boot[1][1].original = <<"p">>
  /\ phase = "running" /\ ~persistPending /\ lastMut = "load"
  /\ Len(history) = Capacity /\ history[1].original = <<"p">>
  /\ history[Capacity].original = <<"old">>
  /\ StoredIs(history)

\* C7: after a confirmed clearHistory the in-memory history is empty and,
\* once its persist has run, the persisted history is the empty list, so a
\* fresh load yields an empty history however many entries there were; a
\* declined clear changes neither.
C7_ClearedState ==
  lastMut = "clear" =>
    /\ history = <<>>
    /\ phase = "running" => (persistPending \/ (StoredIs(<<>>) /\ disk = Some(<<>>)))
C7_ClearStep ==
  /\ ClickClear(TRUE) => history' = <<>> /\ persistPending'
  /\ ClickClear(FALSE) => history' = history /\ lsHistory' = lsHistory
C7_ClearThenLoad == []C7_ClearedState /\ [][C7_ClearStep]_vars
C7_Witness ==
  /\ lastMut = "clear" /\ ~persistPending /\ phase = "running"
  /\ boot # None /\ Len(boot[1]) = Capacity
  /\ history = <<>> /\ StoredIs(<<>>)

\* C8: every change of the history (a record, a clear) schedules a persist
\* of the full list, which is written before anything else the page does
\* next, so whenever no persist is pending the persisted list equals the
\* in-memory list.
C8_QuiescentEqual ==
  phase = "running" /\ ~persistPending => StoredIs(history)
C8_PersistNext ==
  /\ history' # history /\ phase' = "running" => persistPending'
  /\ persistPending /\ phase' = "running" =>
       /\ lsHistory' # None
       /\ JsonParse(lsHistory'[1]).val = history
       /\ persistPending' => history' # history \/ lastMut' = "record"
C8_PersistAfterMutation == []C8_QuiescentEqual /\ [][C8_PersistNext]_vars
C8_Witness ==
  /\ phase = "running" /\ ~persistPending /\ lastMut = "record"
  /\ Len(history) = Capacity /\ history[1].original = <<"p">>
  /\ StoredIs(history)

\* C9: calls in flight together proceed independently and may return in
\* either order; each call that succeeds contributes its own entry, none is
\* lost or overwritten, and the entries are in the order the calls returned,
\* the last to return at the head.
C9_EntriesInReturnOrder ==
  boot = None /\ lastMut \in {"none", "record"} =>
    /\ Len(history) = Min(Len(completed), Capacity)
    /\ \A k \in 1..Len(history) :
         /\ history[k].original = completed[Len(completed) + 1 - k].prompt
         /\ history[k].goal = completed[Len(completed) + 1 - k].goal
C9_Independent ==
  Len(completed') > Len(completed) =>
    \E i \in 1..Len(calls) :
      /\ calls' = RemoveAt(calls, i)
      /\ completed'[Len(completed')].no = calls[i].no
      /\ remoteCalls' = remoteCalls
C9_ConcurrentCalls == []C9_EntriesInReturnOrder /\ [][C9_Independent]_vars
C9_Witness ==
  /\ Len(completed) = 2 /\ completed[1].no = 2 /\ completed[2].no = 1
  /\ completed[1].prompt # completed[2].prompt
  /\ Len(history) = 2
  /\ history[1].original = completed[2].prompt
  /\ history[2].original = completed[1].prompt

\* C10: after any sequence of credential saves the persisted credential, the
\* in-memory credential and the credential of the next call started all
\* equal the last saved value, hasCustomKey is true exactly when it is not
\* empty, and after saving the empty string the next refinement fails with
\* the missing-credential error without a request.
C10_KeyState ==
  lastSaved # None =>
    /\ lsKey = lastSaved
    /\ phase # "crashed" =>
         /\ customApiKey = lastSaved[1]
         /\ hasCustomKey = (lastSaved[1] # <<>>)
C10_NextCall ==
  lastSaved # None /\ ClickOptimize =>
    IF lastSaved[1] = <<>>
      THEN /\ error' = Some(MissingKeyMsg)
           /\ remoteCalls' = remoteCalls /\ calls' = calls
           /\ isLoading' = FALSE
      ELSE /\ Len(calls') = Len(calls) + 1
           /\ calls'[Len(calls')].cred = lastSaved
           /\ remoteCalls' = remoteCalls + 1
C10_LastSavedKey == []C10_KeyState /\ [][C10_NextCall]_vars
C10_Witness ==
  /\ lastSaved = Some(<<>>) /\ lsKey = Some(<<>>) /\ customApiKey = <<>>
  /\ ~hasCustomKey /\ error = Some(MissingKeyMsg) /\ ~isLoading
  /\ remoteCalls = 1 /\ calls = <<>> /\ boot = Some(<<>>)

\* C11: the history gains exactly one entry for each refinement call that
\* succeeds (the fallback text included), holding the prompt and goal
\* submitted with that call and the text it returned; a call that fails adds
\* no entry, leaves the history, the persisted history and the refined text
\* as they were, and sets the error message.
SuccessValues == {RefineSuccess(r.body) : r \in {x \in RefineResponses : x.ok}}
C11_OnePerSuccess ==
  LET loaded == Len(log) - Len(completed)
  IN /\ loaded = 0 \/ (boot # None /\ loaded = Len(boot[1]))
     /\ \A k \in 1..Len(completed) :
          /\ log[loaded + k].original = completed[k].prompt
          /\ log[loaded + k].goal = completed[k].goal
          /\ log[loaded + k].refined \in SuccessValues
C11_ReturnStep ==
  phase = "running" /\ phase' = "running" /\ Len(calls') < Len(calls) =>
    \E i \in 1..Len(calls) :
      /\ calls' = RemoveAt(calls, i)
      /\ IF completed' # completed
           THEN /\ Len(history') > 0
                /\ history' = Record(history, history'[1])
                /\ log' = Append(log, history'[1])
                /\ Len(completed') = Len(completed) + 1
                /\ history'[1].original = calls[i].prompt
                /\ history'[1].goal = calls[i].goal
                /\ history'[1].refined = refined'
                /\ refined' \in SuccessValues
                /\ error' = error
                /\ persistPending'
           ELSE /\ history' = history /\ log' = log
                /\ refined' = refined
                /\ error' # None
                /\ ~persistPending'
                /\ disk' = (IF persistPending THEN Some(history) ELSE disk)
                /\ ~persistPending => lsHistory' = lsHistory
C11_NoKeyStep ==
  ClickOptimize /\ customApiKey = <<>> =>
    /\ history' = history /\ log' = log /\ completed' = completed
    /\ refined' = refined
    /\ error' = Some(MissingKeyMsg)
    /\ ~persistPending => lsHistory' = lsHistory
C11_EntryPerSuccess ==
  []C11_OnePerSuccess /\ [][C11_ReturnStep /\ C11_NoKeyStep]_vars
C11_Witness ==
  /\ Len(completed) = 1 /\ remoteCalls = 2 /\ calls = <<>>
  /\ Len(history) = 2 /\ history[1].refined = FallbackText
  /\ history[1].original = <<"p">> /\ history[1].goal = CODING
  /\ history[2] = SeedEntry(1)
  /\ refined = FallbackText
  /\ error = Some(<<"boom">>)
  /\ ~persistPending /\ StoredIs(history)

\* C12: the id of every history entry is the text of that entry's own
\* timestamp (id = toString(timestamp)), so two entries of the history with
\* different timestamps have different ids.
C12_IdIsTimestamp ==
  /\ \A k \in 1..Len(history) :
       history[k].id = NumberToString(history[k].timestamp)
  /\ \A j, k \in 1..Len(history) :
       history[j].timestamp # history[k].timestamp => history[j].id # history[k].id

\* C13: isLoading is true exactly when a refinement call is in flight: it is
\* set when handleRefine starts a call with a non-blank input, stays true
\* until the call returns, and is false again after a success and after a
\* failure; with a blank input no call starts and nothing changes.
C13_LoadingIffInFlight ==
  /\ isLoading <=> Len(calls) > 0
  /\ Len(calls) <= 1
C13_Step ==
  /\ Len(calls') > Len(calls) =>
       /\ Trim(input) # <<>> /\ ~isLoading /\ isLoading'
       /\ calls'[Len(calls')].prompt = input
  /\ phase' = "running" /\ Len(calls') < Len(calls) => isLoading /\ ~isLoading'
  /\ isLoading /\ Len(calls') = Len(calls) => isLoading'
  /\ Trim(input) = <<>> =>
       /\ Len(calls') <= Len(calls) /\ remoteCalls' = remoteCalls
       /\ ~isLoading => ~isLoading' /\ error' = error
  /\ BlankRefine => UNCHANGED vars
C13_LoadingTracksCall == []C13_LoadingIffInFlight /\ [][C13_Step]_vars
C13_Witness ==
  /\ remoteCalls = 2 /\ Len(calls) = 1 /\ isLoading
  /\ Len(completed) = 1 /\ calls[1].no = 2
  /\ Trim(input) = <<>>

====
